---------------------------- MODULE Spec2Model ----------------------------
(***************************************************************************)
(* A model of the airport-trolley service: the facility table behind the   *)
(* shared SQLAlchemy session, the HTTP handlers that read and write it,    *)
(* the e-mail notification every handler sends, the navigation lookup that *)
(* parses a facility's coordinates, and the Haversine distance helper.     *)
(*                                                                         *)
(* Text values are sequences of one-character strings, so that split(',')  *)
(* and float() are computed on the characters as Python computes them.     *)
(***************************************************************************)
EXTENDS Integers, Sequences, FiniteSets, TLC

VARIABLES
    store,      \* rows of airport_facilities that are committed
    work,       \* the table as the session's open transaction sees it
    pending,    \* objects session.add()-ed and not yet flushed (no id yet)
    broken,     \* the session's transaction failed in a flush; rollback() is due
    nextId,     \* next value of the id sequence (autoincrement)
    resp,       \* the last response: handler, status code, e-mail calls, details
    calc        \* the distance calculator's inputs and outputs (SpecDistance)

vars == <<store, work, pending, broken, nextId, resp, calc>>

----------------------------------------------------------------------------
(* Bounds of the model. *)

\* The id sequence is unbounded; handlers that insert are cut off past MaxId.
MaxId == 2

----------------------------------------------------------------------------
(* Values. *)

\* Python None / JSON null; a value no character string equals.
None == << "None" >>

\* A key that the JSON body does not hold.
Absent == << "Absent" >>

\* An id parameter: << >> without it, << i >> with the id i.
NoId == << >>

\* Python truthiness of an optional string: `not v` is true for None and for ''.
Falsy(v) == v = None \/ v = << >>

\* Column widths of the table.
NameMaxLen == 100
CategoryMaxLen == 50
CoordinatesMaxLen == 50
DescriptionMaxLen == 200

Digits == {"0", "1", "2", "3", "4", "5", "6", "7", "8", "9"}

\* Coordinates strings a request may carry.
CoordSpec == << "1", "2", ",", " ", "7" >>          \* "12, 7": the documented "<lat>, <lng>"
CoordAlpha == << "x", ",", "7" >>                   \* "x,7": two parts, the first not a number
CoordOnePart == << "1", "2" >>                      \* "12": no comma
CoordLong == [i \in 1..(CoordinatesMaxLen + 1) |-> "7"]   \* 51 digits: wider than the column
CoordEmpty == << >>                                 \* ""

StoredCoords == {CoordSpec, CoordAlpha, CoordOnePart}
NonEmptyCoords == StoredCoords \cup {CoordLong}

NameG == << "G", "1" >>
CategoryGate == << "G" >>

\* datetime.utcnow() at an insert, and a timestamp a request body supplies.
Times == {1}
SuppliedTimes == {0}

\* An id a request body carries for a facility to be created.
SuppliedIds == {3}

----------------------------------------------------------------------------
(* str.split(',') and float(). *)

RECURSIVE SplitFrom(_, _, _)
\* The parts of s from position i on, cur being the part read so far.
SplitFrom(s, i, cur) ==
    IF i > Len(s) THEN << cur >>
    ELSE IF s[i] = "," THEN << cur >> \o SplitFrom(s, i + 1, << >>)
    ELSE SplitFrom(s, i + 1, Append(cur, s[i]))

\* s.split(','): always at least one part.
Split(s) == SplitFrom(s, 1, << >>)

RECURSIVE LStrip(_)
LStrip(s) == IF s # << >> /\ Head(s) = " " THEN LStrip(Tail(s)) ELSE s

RECURSIVE RStrip(_)
RStrip(s) ==
    IF s # << >> /\ s[Len(s)] = " " THEN RStrip(SubSeq(s, 1, Len(s) - 1)) ELSE s

Strip(s) == RStrip(LStrip(s))

AllDigits(s) == \A i \in 1..Len(s) : s[i] \in Digits

\* digits[.digits] | .digits, at least one digit in all
IsUnsignedDecimal(s) ==
    \/ s # << >> /\ AllDigits(s)
    \/ \E k \in 1..Len(s) :
          /\ s[k] = "."
          /\ AllDigits(SubSeq(s, 1, k - 1))
          /\ AllDigits(SubSeq(s, k + 1, Len(s)))
          /\ Len(s) > 1

\* A float() that never raises.
IsFloatMutant(s) == TRUE

\* Whether float(s) returns (TRUE) or raises ValueError (FALSE), for strings over
\* digits, '.', '+', '-', blanks and letters other than those of inf/nan/e.
IsFloat(s) ==
    LET t == Strip(s)
        u == IF t # << >> /\ Head(t) \in {"+", "-"} THEN Tail(t) ELSE t
    IN  IsUnsignedDecimal(u)

\* The decimal digits in order, and the value of a digit character.
DigitSeq == << "0", "1", "2", "3", "4", "5", "6", "7", "8", "9" >>
DigitVal(ch) == CHOOSE d \in 0..9 : DigitSeq[d + 1] = ch

RECURSIVE IntOf(_)
\* The number a string of digits writes; 0 for the empty string.
IntOf(s) ==
    IF s = << >> THEN 0
    ELSE 10 * IntOf(SubSeq(s, 1, Len(s) - 1)) + DigitVal(s[Len(s)])

\* float(s) for a string float() accepts, in ten-thousandths: the digits after
\* the fourth decimal are dropped.
FloatOf(s) ==
    LET t == Strip(s)
        neg == t # << >> /\ Head(t) = "-"
        u == IF t # << >> /\ Head(t) \in {"+", "-"} THEN Tail(t) ELSE t
        dots == {k \in 1..Len(u) : u[k] = "."}
        k == IF dots = {} THEN Len(u) + 1 ELSE CHOOSE d \in dots : TRUE
        frac == SubSeq(u, k + 1, Len(u)) \o << "0", "0", "0", "0" >>
        v == IntOf(SubSeq(u, 1, k - 1)) * 10000 + IntOf(SubSeq(frac, 1, 4))
    IN  IF neg THEN -v ELSE v

RECURSIVE DigitsOf(_)
\* The decimal digits of n >= 0, at least one.
DigitsOf(n) ==
    IF n < 10 THEN << DigitSeq[n + 1] >>
    ELSE Append(DigitsOf(n \div 10), DigitSeq[(n % 10) + 1])

\* f"{distance:.2f} km" for a distance km >= 0 in ten-thousandths of a kilometre.
FormatKm(km) ==
    LET cents == (km + 50) \div 100
    IN  DigitsOf(cents \div 100)
          \o << ".", DigitSeq[((cents % 100) \div 10) + 1], DigitSeq[(cents % 10) + 1] >>
          \o << " ", "k", "m" >>

----------------------------------------------------------------------------
(* The table and the session. *)

\* A row. id0 and created0 are history fields: the id and created_at the row was
\* inserted with. The program neither reads nor writes them.
Row(id, name, category, coordinates, description, t) ==
    [id |-> id, name |-> name, category |-> category, coordinates |-> coordinates,
     description |-> description, created_at |-> t, id0 |-> id, created0 |-> t]

\* A constructor that keeps only the first comma-separated part of coordinates.
NewObjectMutant(id, name, category, coordinates, description) ==
    [id |-> id, name |-> name, category |-> category,
     coordinates |-> Split(coordinates)[1], description |-> description]

\* An object built by AirportFacility(name=..., category=..., ...). id is NoId
\* unless the constructor is given one; the INSERT then takes it from the sequence.
NewObject(id, name, category, coordinates, description) ==
    [id |-> id, name |-> name, category |-> category, coordinates |-> coordinates,
     description |-> description]

Columns == {"id", "name", "category", "coordinates", "description", "created_at"}

\* NOT NULL and VARCHAR(n) of the columns, as PostgreSQL enforces them on a write.
ColumnsOk(r) ==
    /\ r.name # None /\ Len(r.name) <= NameMaxLen
    /\ r.category # None /\ Len(r.category) <= CategoryMaxLen
    /\ r.coordinates # None /\ Len(r.coordinates) <= CoordinatesMaxLen
    /\ r.description = None \/ Len(r.description) <= DescriptionMaxLen

Ids(rows) == {r.id : r \in rows}

\* The primary key: no two rows with one id.
PrimaryKeyOk(rows) == \A r1, r2 \in rows : r1.id = r2.id => r1 = r2

\* The session and database state as one record.
Session == [store |-> store, work |-> work, pending |-> pending,
            broken |-> broken, nextId |-> nextId]

\* A flush that raised: the transaction is rolled back, the pending objects are
\* expunged, and the session refuses work until rollback() is called.
Failed(s, nid) ==
    [store |-> s.store, work |-> s.store, pending |-> << >>, broken |-> TRUE,
     nextId |-> nid]

RECURSIVE InsertAll(_, _, _, _)
\* INSERT the objects of pend one after the other, each taking the sequence's next
\* value (a value a failed INSERT took is not given back).
InsertAll(pend, rows, nid, t) ==
    IF pend = << >> THEN [ok |-> TRUE, rows |-> rows, nextId |-> nid]
    ELSE LET o == Head(pend)
             fromSeq == o.id = NoId
             id == IF fromSeq THEN nid ELSE o.id[1]
             after == IF fromSeq THEN nid + 1 ELSE nid
             r == Row(id, o.name, o.category, o.coordinates, o.description, t)
         IN  IF ColumnsOk(r) /\ id \notin Ids(rows)
             THEN InsertAll(Tail(pend), rows \cup {r}, after, t)
             ELSE [ok |-> FALSE, rows |-> rows, nextId |-> after]

\* session.flush() of the pending objects, at time t. [ok, s]
Flush(s, t) ==
    IF s.broken THEN [ok |-> FALSE, s |-> s]
    ELSE LET ins == InsertAll(s.pending, s.work, s.nextId, t)
         IN  IF ins.ok
             THEN [ok |-> TRUE,
                   s |-> [s EXCEPT !.work = ins.rows, !.pending = << >>,
                                   !.nextId = ins.nextId]]
             ELSE [ok |-> FALSE, s |-> Failed(s, ins.nextId)]

\* What a Query does before it reads: autoflush.
Autoflush(s, t) == Flush(s, t)

\* session.commit(): flush, then make the transaction's table the committed one.
Commit(s, t) ==
    LET f == Flush(s, t)
    IN  IF f.ok THEN [ok |-> TRUE, s |-> [f.s EXCEPT !.store = f.s.work]]
        ELSE f

\* session.rollback()
Rollback(s) == [s EXCEPT !.work = s.store, !.pending = << >>, !.broken = FALSE]

----------------------------------------------------------------------------
(* E-mail. send_email raises when the SMTP exchange fails. *)

\* The detail of a response that carries none the model reads.
NoDetail == [none |-> TRUE]

\* A response. emails counts the send_email calls made while handling the request;
\* crashed says the handler let an exception escape (Flask answers 500).
Response(op, status, emails, detail) ==
    [op |-> op, status |-> status, emails |-> emails, crashed |-> FALSE,
     detail |-> detail]

Crash(op, emails) ==
    [op |-> op, status |-> 500, emails |-> emails, crashed |-> TRUE,
     detail |-> NoDetail]

\* return ..., status after one notify_* call whose send succeeds (mailOk) or raises
\* outside any try block.
NotifyThen(op, status, mailOk, detail) ==
    IF mailOk THEN Response(op, status, 1, detail) ELSE Crash(op, 1)

\* The catch-all branch: notify_failure, then the error body with `status`.
\* `before` counts the send_email calls made before the exception.
ExceptBranch(op, status, before, mailOk) ==
    IF mailOk THEN Response(op, status, before + 1, NoDetail) ELSE Crash(op, before + 1)

\* A notify_* call inside the try block, then the response with `status`; when the
\* send raises, the catch-all branch runs and answers errStatus.
NotifyInTry(op, status, errStatus, m1, m2, detail) ==
    IF m1 THEN Response(op, status, 1, detail) ELSE ExceptBranch(op, errStatus, 1, m2)

Outcome(s, r) == [s |-> s, resp |-> r]

\* The response r, with what the handler had read when it answered.
WithDetail(r, detail) == [r EXCEPT !.detail = detail]


----------------------------------------------------------------------------
(* The facility handlers. Each takes the request, the time t, and whether the *)
(* first and the second send_email of the request succeed (m1, m2), and gives *)
(* the session afterwards and the response.                                   *)

RowOf(rows, id) == CHOOSE r \in rows : r.id = id

\* The id the last object flushed got.
NewId(s, o) == IF o.id = NoId THEN s.nextId - 1 ELSE o.id[1]

\* A constructor call that passes the body's id on.
FacilityFromBodyMutant(data) ==
    NewObject(data.id, data.name, data.category, data.coordinates,
              IF data.description = Absent THEN << >> ELSE data.description)

\* new_facility = AirportFacility(name=data['name'], ...): the body's name,
\* category, coordinates and description, and nothing else of the body.
FacilityFromBody(data) ==
    NewObject(NoId, data.name, data.category, data.coordinates,
              IF data.description = Absent THEN << >> ELSE data.description)

\* POST /airport/facilities. data: [id, name, category, coordinates, description],
\* a key the body lacks being Absent.
add_facility(data, t, m1, m2) ==
    LET s == Session
        op == "add_facility"
    IN  IF Absent \in {data.name, data.category, data.coordinates}
        THEN Outcome(s, ExceptBranch(op, 500, 0, m1))              \* KeyError
        ELSE
        LET o == FacilityFromBody(data)
            c == Commit([s EXCEPT !.pending = Append(@, o)], t)
        IN  IF ~c.ok THEN Outcome(c.s, ExceptBranch(op, 500, 0, m1))
            ELSE Outcome(c.s, NotifyInTry(op, 201, 500, m1, m2,
                                          [created |-> {NewId(c.s, o)},
                                           body_id |-> data.id]))

RECURSIVE BatchLoop(_, _)
\* The loop over facilities_data: the objects added to the session before the
\* first element that lacks a mandatory field, and whether there is such an element.
BatchLoop(list, added) ==
    IF list = << >> THEN [valid |-> TRUE, added |-> added]
    ELSE LET f == Head(list)
         IN  IF Falsy(f.name) \/ Falsy(f.category) \/ Falsy(f.coordinates)
             THEN [valid |-> FALSE, added |-> added]
             ELSE BatchLoop(Tail(list),
                            Append(added, NewObject(NoId, f.name, f.category,
                                                    f.coordinates, f.description)))

\* POST /airport/facilities/batch. body: [is_list, items], the JSON body being the
\* list `items`, or something that is no list.
add_multiple_facilities_batch(body, t, m1, m2) ==
    LET s == Session
        op == "add_multiple_facilities_batch"
    IN  IF ~body.is_list THEN Outcome(s, NotifyInTry(op, 400, 500, m1, m2, NoDetail))
        ELSE
        LET loop == BatchLoop(body.items, << >>)
            s1 == [s EXCEPT !.pending = @ \o loop.added]
        IN  IF ~loop.valid THEN Outcome(s1, NotifyInTry(op, 400, 500, m1, m2, NoDetail))
            ELSE
            LET c == Commit(s1, t)
            IN  IF ~c.ok
                THEN \* except SQLAlchemyError: rollback, then notify_failure, which
                     \* no handler catches when it raises
                     Outcome(Rollback(c.s), NotifyThen(op, 500, m1, NoDetail))
                ELSE Outcome(c.s,
                             NotifyInTry(op, 201, 500, m1, m2,
                                 [created |-> (c.s.nextId - Len(loop.added))
                                                  .. (c.s.nextId - 1)]))

\* setattr(facility, key, value) for every key of the body; a key that names no
\* column sets a plain attribute and changes no row.
SetAttrs(r, d) ==
    [k \in DOMAIN r |-> IF k \in Columns /\ k \in DOMAIN d THEN d[k] ELSE r[k]]

\* The UPDATEs of a flush: `changed` maps each modified row to its new value.
\* [ok, rows]
UpdateRows(rows, targets, d) ==
    LET kept == rows \ targets
        new == {SetAttrs(r, d) : r \in targets}
    IN  [ok |-> /\ \A r \in new : ColumnsOk(r)
                /\ Cardinality(Ids(new)) = Cardinality(targets)
                /\ Ids(new) \cap Ids(kept) = {},
         rows |-> kept \cup new]

\* Flush of modified rows and commit. [ok, s]
CommitUpdate(s, targets, d) ==
    LET u == UpdateRows(s.work, targets, d)
    IN  IF u.ok THEN [ok |-> TRUE, s |-> [s EXCEPT !.work = u.rows, !.store = u.rows]]
        ELSE [ok |-> FALSE, s |-> Failed(s, s.nextId)]

\* PUT /airport/facilities. data: the JSON body, a function from its keys.
update_facility(data, t, m1, m2) ==
    LET s == Session
        op == "update_facility"
        f == Autoflush(s, t)
    IN  IF ~f.ok THEN Outcome(f.s, ExceptBranch(op, 500, 0, m1))
        ELSE IF "id" \notin DOMAIN data
        THEN \* data.get('id', id) is the builtin function id: the query raises
             Outcome(f.s, ExceptBranch(op, 500, 0, m1))
        ELSE IF data.id \notin Ids(f.s.work)
        THEN Outcome(f.s, NotifyInTry(op, 404, 500, m1, m2, NoDetail))
        ELSE
        LET c == CommitUpdate(f.s, {RowOf(f.s.work, data.id)}, data)
        IN  IF ~c.ok THEN Outcome(c.s, ExceptBranch(op, 500, 0, m1))
            ELSE Outcome(c.s, NotifyInTry(op, 200, 500, m1, m2,
                                          [updated |-> {data.id}]))

\* PUT /airport/facilities/batch-update. data: [ids, update_data].
batch_update_facilities(data, t, m1, m2) ==
    LET s == Session
        op == "batch_update_facilities"
    IN  IF data.ids = {} THEN Outcome(s, Response(op, 400, 0, NoDetail))
        ELSE
        LET f == Autoflush(s, t)
        IN  IF ~f.ok THEN Outcome(f.s, ExceptBranch(op, 500, 0, m1))
            ELSE
            LET facilities == {r \in f.s.work : r.id \in data.ids}
            IN  IF facilities = {} THEN Outcome(f.s, Response(op, 404, 0, NoDetail))
                ELSE
                LET c == CommitUpdate(f.s, facilities, data.update_data)
                IN  IF ~c.ok THEN Outcome(c.s, ExceptBranch(op, 500, 0, m1))
                    ELSE Outcome(c.s,
                                 NotifyInTry(op, 200, 500, m1, m2,
                                             [updated |-> Ids(facilities)]))

\* session.delete(...) or Query.delete(), and commit. No DELETE here can fail.
CommitDelete(s, targets) ==
    [s EXCEPT !.work = @ \ targets, !.store = s.work \ targets]

\* DELETE /airport/facilities?id=... ; id is NoId without the parameter.
delete_facility(id, t, m1, m2) ==
    LET s == Session
        op == "delete_facility"
    IN  IF id = NoId THEN Outcome(s, Response(op, 400, 0, NoDetail))
        ELSE
        LET f == Autoflush(s, t)
        IN  IF ~f.ok THEN Outcome(f.s, ExceptBranch(op, 500, 0, m1))
            ELSE IF id[1] \notin Ids(f.s.work)
            THEN Outcome(f.s, NotifyInTry(op, 404, 500, m1, m2, NoDetail))
            ELSE Outcome(CommitDelete(f.s, {RowOf(f.s.work, id[1])}),
                         NotifyInTry(op, 200, 500, m1, m2, [deleted |-> {id[1]}]))

\* DELETE /airport/facilities/clear
clear_facilities(t, m1, m2) ==
    LET s == Session
        op == "clear_facilities"
        f == Autoflush(s, t)
    IN  IF ~f.ok THEN Outcome(f.s, ExceptBranch(op, 500, 0, m1))
        ELSE IF Cardinality(f.s.work) = 0
        THEN Outcome(f.s, Response(op, 404, 0, NoDetail))
        ELSE Outcome(CommitDelete(f.s, f.s.work),
                     NotifyInTry(op, 200, 500, m1, m2,
                                 [deleted |-> Ids(f.s.work),
                                  total_count |-> Cardinality(f.s.work)]))

\* GET /all/airport/facilities. Its catch-all branch answers status 50.
get_all_facilities(t, m1, m2) ==
    LET s == Session
        op == "get_all_facilities"
        f == Autoflush(s, t)
    IN  IF ~f.ok THEN Outcome(f.s, ExceptBranch(op, 50, 0, m1))
        ELSE Outcome(f.s, NotifyInTry(op, 200, 50, m1, m2,
                                      [total_count |-> Cardinality(f.s.work)]))

\* GET /airport/facilities?id=...
get_facility_by_id(id, t, m1, m2) ==
    LET s == Session
        op == "get_facility_by_id"
    IN  IF id = NoId THEN Outcome(s, Response(op, 400, 0, NoDetail))
        ELSE
        LET f == Autoflush(s, t)
        IN  IF ~f.ok THEN Outcome(f.s, ExceptBranch(op, 500, 0, m1))
            ELSE IF id[1] \notin Ids(f.s.work)
            THEN Outcome(f.s, NotifyInTry(op, 404, 500, m1, m2, NoDetail))
            ELSE Outcome(f.s, NotifyInTry(op, 200, 500, m1, m2, [total_count |-> 1]))

----------------------------------------------------------------------------
(* Navigation. *)

\* What gmaps.directions gives: a route with legs, an empty list, a first result
\* without 'legs', or an exception.
Directions == {"route", "empty", "nolegs", "raise"}

\* The navigation_steps built from a route.
StepsOf(directions) == IF directions = "route" THEN << "step" >> ELSE << >>

\* GET /navigate. current_lat, current_lng: the query strings (Absent without the
\* parameter); facility_id: the id asked for, or NoId.
navigate(current_lat, current_lng, facility_id, directions, t, m1, m2) ==
    LET s == Session
        op == "navigate"
    IN  IF Falsy(current_lat) \/ current_lat = Absent
           \/ Falsy(current_lng) \/ current_lng = Absent \/ facility_id = NoId
        THEN Outcome(s, NotifyThen(op, 400, m1, NoDetail))
        ELSE
        LET f == Autoflush(s, t)
        IN  IF ~f.ok THEN Outcome(f.s, ExceptBranch(op, 500, 0, m1))
            ELSE IF facility_id[1] \notin Ids(f.s.work)
            THEN Outcome(f.s, NotifyInTry(op, 404, 500, m1, m2, NoDetail))
            ELSE
            LET facility == RowOf(f.s.work, facility_id[1])
                destination_coords == Split(facility.coordinates)
                read == [facility |-> facility_id[1], navigation_steps |-> << >>]
            IN  IF Len(destination_coords) # 2
                THEN Outcome(f.s, NotifyInTry(op, 400, 500, m1, m2, read))
                ELSE IF ~(/\ IsFloat(current_lat) /\ IsFloat(current_lng)
                          /\ IsFloat(destination_coords[1])
                          /\ IsFloat(destination_coords[2]))
                THEN \* float() raises ValueError
                     Outcome(f.s, WithDetail(ExceptBranch(op, 500, 0, m1), read))
                ELSE IF directions = "raise"
                THEN Outcome(f.s, ExceptBranch(op, 500, 0, m1))
                ELSE IF directions = "route"
                THEN Outcome(f.s, NotifyInTry(op, 200, 500, m1, m2,
                                     [facility |-> facility_id[1],
                                      navigation_steps |-> StepsOf(directions)]))
                ELSE Outcome(f.s, NotifyInTry(op, 404, 500, m1, m2, read))

----------------------------------------------------------------------------
(* The distance helper. Python computes it in IEEE-754 doubles; the model      *)
(* computes it in fixed point, a real x being the integer x * Scale, truncated. *)
(* Products are formed from four-digit limbs so that no intermediate value      *)
(* leaves 32 bits. Angles in degrees are given in ten-thousandths of a degree,  *)
(* distances in ten-thousandths of a kilometre.                                 *)

Scale == 10 ^ 8
Limb == 10 ^ 4

\* One degree and one kilometre in the units of the inputs and of the result.
Degree == 10 ^ 4
Kilometre == 10 ^ 4

Abs(x) == IF x < 0 THEN -x ELSE x

\* The exact product of x, y >= 0 as hi * Scale + lo, 0 <= lo < Scale.
MulWide(x, y) ==
    LET x1 == x \div Limb
        x0 == x % Limb
        y1 == y \div Limb
        y0 == y % Limb
        m == x1 * y0 + x0 * y1
        low == (m % Limb) * Limb + x0 * y0
    IN  [hi |-> x1 * y1 + m \div Limb + low \div Scale, lo |-> low % Scale]

\* The fixed-point product of two fixed-point numbers.
Mul(x, y) ==
    LET p == MulWide(Abs(x), Abs(y)).hi
    IN  IF (x < 0) = (y < 0) THEN p ELSE -p

AddWide(p, q) ==
    [hi |-> p.hi + q.hi + (p.lo + q.lo) \div Scale, lo |-> (p.lo + q.lo) % Scale]

SubWide(p, q) ==
    [hi |-> p.hi - q.hi + (p.lo - q.lo) \div Scale, lo |-> (p.lo - q.lo) % Scale]

LeqWide(p, q) == p.hi < q.hi \/ (p.hi = q.hi /\ p.lo <= q.lo)

\* math.pi
Pi == 314159265
HalfPi == Pi \div 2

\* math.radians(d), d in ten-thousandths of a degree: d * pi / 180.
radians(d) ==
    LET n == Abs(d)
        q == n \div 1000
        r == n % 1000
        v == q * 174532 + (q * 925) \div 1000 + r * 174 + (r * 532925) \div 1000000
    IN  IF d < 0 THEN -v ELSE v

RECURSIVE Series(_, _, _)
\* term - term*x2/((n+1)(n+2)) + term*x2^2/((n+1)...(n+4)) - ...
Series(term, x2, n) ==
    IF term = 0 THEN 0
    ELSE term - Series(Mul(term, x2) \div ((n + 1) * (n + 2)), x2, n + 2)

Clamp(v) == IF v > Scale THEN Scale ELSE IF v < 0 THEN 0 ELSE v

\* sin and cos on [0, pi/2]
SinQ(x) == Clamp(Series(x, Mul(x, x), 1))
CosQ(x) == Clamp(Series(Scale, Mul(x, x), 0))

RECURSIVE Sin(_)
\* math.sin
Sin(x) ==
    IF x < 0 THEN -Sin(-x)
    ELSE IF x > Pi THEN -Sin(x - Pi)
    ELSE IF x > HalfPi THEN SinQ(Pi - x)
    ELSE SinQ(x)

RECURSIVE Cos(_)
\* math.cos
Cos(x) ==
    IF x < 0 THEN Cos(-x)
    ELSE IF x > Pi THEN -Cos(x - Pi)
    ELSE IF x > HalfPi THEN -CosQ(Pi - x)
    ELSE CosQ(x)

\* x / 2 of a float: exact, and odd in x.
Half(x) == IF x < 0 THEN -((-x) \div 2) ELSE x \div 2

\* x ** 2, kept to sixteen digits.
Square(x) == MulWide(Abs(x), Abs(x))

\* f * w for a fixed-point f and a sixteen-digit w >= 0.
Times16(f, w) ==
    LET p == AddWide(MulWide(Abs(f), w.hi), [hi |-> 0, lo |-> MulWide(Abs(f), w.lo).hi])
    IN  IF f < 0 THEN SubWide([hi |-> 0, lo |-> 0], p) ELSE p

RECURSIVE SqrtSearch(_, _, _)
\* The largest y in lo..hi with y * y <= a.
SqrtSearch(lo, hi, a) ==
    IF lo = hi THEN lo
    ELSE LET mid == (lo + hi + 1) \div 2
         IN  IF LeqWide(MulWide(mid, mid), a) THEN SqrtSearch(mid, hi, a)
             ELSE SqrtSearch(lo, mid - 1, a)

\* c = 2 * asin(a): the square root left out.
sqrtMutant(a) == a.hi

\* math.sqrt of a sixteen-digit a >= 0, as a fixed-point number.
sqrt(a) == SqrtSearch(0, 2 * Scale, a)

RECURSIVE AsinSearch(_, _, _)
\* The largest y in lo..hi with sin y <= x.
AsinSearch(lo, hi, x) ==
    IF lo = hi THEN lo
    ELSE LET mid == (lo + hi + 1) \div 2
         IN  IF SinQ(mid) <= x THEN AsinSearch(mid, hi, x)
             ELSE AsinSearch(lo, mid - 1, x)

\* asin(x) - pi/2: the arc taken from the wrong end.
asinMutant(x) == AsinSearch(0, HalfPi, x) - HalfPi

\* math.asin on [0, 1]
asin(x) == AsinSearch(0, HalfPi, x)

\* Radius of Earth in kilometres.
EarthRadius == 6371

\* A radius that grows with the number of stored facilities.
ScaleKmStateful(c) ==
    (EarthRadius + Cardinality(store)) * (c \div Limb)
      + ((EarthRadius + Cardinality(store)) * (c % Limb)) \div Limb

\* The radius in miles.
ScaleKmMutant(c) ==
    3956 * (c \div Limb) + (3956 * (c % Limb)) \div Limb

\* km = 6371 * c, c in radians; the result in ten-thousandths of a kilometre.
ScaleKm(c) ==
    EarthRadius * (c \div Limb) + (EarthRadius * (c % Limb)) \div Limb

\* What a call gives: a distance, or the ValueError ("math domain error") that
\* math.sqrt raises below 0 and math.asin above 1.
Returned(km) == [ok |-> TRUE, km |-> km]
ValueError == [ok |-> FALSE, km |-> 0]

\* cos(lat1) * cos(lat1) for cos(lat1) * cos(lat2).
HaversineMutant(lat1, lat2, dlat, dlon) ==
    LET a == AddWide(Square(Sin(Half(dlat))),
                     Times16(Mul(Cos(lat1), Cos(lat1)), Square(Sin(Half(dlon)))))
    IN  IF a.hi < 0 THEN ValueError
        ELSE IF sqrt(a) > Scale THEN ValueError
        ELSE Returned(ScaleKm(2 * asin(sqrt(a))))

\* a = sin(dlat / 2)**2 + cos(lat1) * cos(lat2) * sin(dlon / 2)**2
haversine_a(lat1, lat2, dlat, dlon) ==
    AddWide(Square(Sin(Half(dlat))),
            Times16(Mul(Cos(lat1), Cos(lat2)), Square(Sin(Half(dlon)))))

\* Whether math.sqrt(a) and math.asin of it return: a >= 0 and sqrt(a) <= 1.
\* Near the antipode a is 1 or 0 up to rounding, and which pairs round out of the
\* domain differs between the doubles of the code and these fixed-point numbers:
\* (121, 0)-(59, 180) is out of it in both, (45, 0)-(-45, 180) only here.
InDomain(a) == a.hi >= 0 /\ sqrt(a) <= Scale

\* c = 2 * asin(sqrt(a)), for a in the domain
central_c(a) == 2 * asin(sqrt(a))

\* a clamped into [0, 1] before sqrt and asin
HaversineClamped(lat1, lat2, dlat, dlon) ==
    LET a == haversine_a(lat1, lat2, dlat, dlon)
    IN  IF a.hi < 0 THEN Returned(0)
        ELSE IF sqrt(a) > Scale THEN Returned(ScaleKm(Pi))
        ELSE Returned(ScaleKm(central_c(a)))

\* The Haversine formula on radians.
Haversine(lat1, lat2, dlat, dlon) ==
    LET a == haversine_a(lat1, lat2, dlat, dlon)
    IN  IF ~InDomain(a) THEN ValueError
        ELSE Returned(ScaleKm(central_c(a)))

\* dlat = lat2 + lat1
calculate_distanceMutant(lat1, lng1, lat2, lng2) ==
    Haversine(radians(lat1), radians(lat2), radians(lat2) + radians(lat1),
              radians(lng2) - radians(lng1))

\* calculate_distance(lat1, lng1, lat2, lng2), the four in degrees.
calculate_distance(lat1, lng1, lat2, lng2) ==
    Haversine(radians(lat1), radians(lat2), radians(lat2) - radians(lat1),
              radians(lng2) - radians(lng1))

----------------------------------------------------------------------------
(* Requests. *)

AddBody(id, name, coordinates) ==
    [id |-> id, name |-> name, category |-> CategoryGate,
     coordinates |-> coordinates, description |-> Absent]

AddBodies ==
    {AddBody(NoId, NameG, c) : c \in NonEmptyCoords \cup {Absent}}
      \cup {AddBody(<< i >>, NameG, CoordSpec) : i \in SuppliedIds}
      \cup {AddBody(NoId, None, CoordSpec)}

BatchElement(name, coordinates) ==
    [name |-> name, category |-> CategoryGate, coordinates |-> coordinates,
     description |-> None]

BatchElements ==
    {BatchElement(NameG, c) : c \in {CoordSpec, CoordAlpha, CoordLong, CoordEmpty}}

RECURSIVE ListsUpTo(_, _)
ListsUpTo(S, n) ==
    IF n = 0 THEN {<< >>}
    ELSE LET shorter == ListsUpTo(S, n - 1)
         IN  shorter \cup {Append(l, x) : l \in shorter, x \in S}

\* Lists of at most two elements, and a body that is no list.
BatchBodies ==
    {[is_list |-> TRUE, items |-> l] : l \in ListsUpTo(BatchElements, 2)}
      \cup {[is_list |-> FALSE, items |-> << >>]}

\* The objects a batch body adds to the session when every element is valid.
BodySize(body) == Len(body.items)

RequestIds == 1..MaxId
IdParams == {NoId} \cup {<< i >> : i \in RequestIds}

\* Bodies of update requests: an overwrite of coordinates, of name by null, of an
\* attribute that is no column, and of created_at.
UpdateData ==
    {[coordinates |-> c] : c \in {CoordAlpha, CoordLong}}
      \cup {[name |-> None], [colour |-> << "r" >>]}

WithId(d, i) == [k \in DOMAIN d \cup {"id"} |-> IF k = "id" THEN i ELSE d[k]]

UpdateBodies ==
    {[coordinates |-> CoordSpec]}
      \cup {WithId(d, i) : d \in UpdateData, i \in RequestIds}
      \cup {[id |-> 1, created_at |-> t] : t \in SuppliedTimes}

BatchUpdateBodies ==
    [ids : {1..n : n \in 0..MaxId},
     update_data : {[coordinates |-> CoordAlpha], [name |-> None]}
                     \cup {[id |-> i] : i \in SuppliedIds}]

\* Navigate requests: [current_lat, current_lng, facility_id, directions].
NavRequest(lat, lng, id, d) ==
    [current_lat |-> lat, current_lng |-> lng, facility_id |-> id, directions |-> d]

NavRequests ==
    {NavRequest(<< "1" >>, << "1" >>, << i >>, d) : i \in RequestIds, d \in Directions}
      \cup {NavRequest(<< "x" >>, << "1" >>, << i >>, "route") : i \in RequestIds}
      \cup {NavRequest(<< >>, << "1" >>, << 1 >>, "route"),
            NavRequest(<< "1" >>, Absent, << 1 >>, "route"),
            NavRequest(<< "1" >>, << "1" >>, NoId, "route")}

\* Whether the first and the second send_email of a request succeed; the second is
\* made only after the first raised.
Mails == {<< TRUE, TRUE >>, << FALSE, TRUE >>, << FALSE, FALSE >>}

\* The id sequence is cut off: n more objects may be added only while every
\* object of the session can still get an id up to MaxId.
Room(n) == nextId + Len(pending) + n - 1 <= MaxId

----------------------------------------------------------------------------
(* The service. *)

NoResponse == Response("none", 0, 0, NoDetail)
NoCalc == [pc |-> "none"]

Apply(out) ==
    /\ store' = out.s.store
    /\ work' = out.s.work
    /\ pending' = out.s.pending
    /\ broken' = out.s.broken
    /\ nextId' = out.s.nextId
    /\ resp' = out.resp
    /\ UNCHANGED calc

Init ==
    /\ store = {}
    /\ work = {}
    /\ pending = << >>
    /\ broken = FALSE
    /\ nextId = 1
    /\ resp = NoResponse
    /\ calc = NoCalc

Do_add_facility ==
    \E data \in AddBodies, t \in Times, m \in Mails :
        /\ Room(1)
        /\ Apply(add_facility(data, t, m[1], m[2]))

Do_add_multiple_facilities_batch ==
    \E body \in BatchBodies, t \in Times, m \in Mails :
        /\ Room(BodySize(body))
        /\ Apply(add_multiple_facilities_batch(body, t, m[1], m[2]))

Do_update_facility ==
    \E data \in UpdateBodies, t \in Times, m \in Mails :
        Apply(update_facility(data, t, m[1], m[2]))

Do_batch_update_facilities ==
    \E data \in BatchUpdateBodies, t \in Times, m \in Mails :
        Apply(batch_update_facilities(data, t, m[1], m[2]))

Do_delete_facility ==
    \E id \in IdParams, t \in Times, m \in Mails :
        Apply(delete_facility(id, t, m[1], m[2]))

Do_clear_facilities ==
    \E t \in Times, m \in Mails : Apply(clear_facilities(t, m[1], m[2]))

Do_get_all_facilities ==
    \E t \in Times, m \in Mails : Apply(get_all_facilities(t, m[1], m[2]))

Do_get_facility_by_id ==
    \E id \in IdParams, t \in Times, m \in Mails :
        Apply(get_facility_by_id(id, t, m[1], m[2]))

Do_navigate ==
    \E r \in NavRequests, t \in Times, m \in Mails :
        Apply(navigate(r.current_lat, r.current_lng, r.facility_id, r.directions,
                       t, m[1], m[2]))

Next ==
    \/ Do_add_facility
    \/ Do_add_multiple_facilities_batch
    \/ Do_update_facility
    \/ Do_batch_update_facilities
    \/ Do_delete_facility
    \/ Do_clear_facilities
    \/ Do_get_all_facilities
    \/ Do_get_facility_by_id
    \/ Do_navigate

Spec == Init /\ [][Next]_vars

----------------------------------------------------------------------------
(* The distance helper on its own: three points are drawn, and one step       *)
(* calls calculate_distance on the pairs of them.                             *)

Point(lat, lng) == [lat |-> lat, lng |-> lng]

Origin == Point(0, 0)
EquatorEast == Point(0, 1 * Degree)
Antimeridian == Point(0, 180 * Degree)
NorthPole == Point(90 * Degree, 0)
Chennai == Point(130827, 802707)
ChennaiGate == Point(130837, 802707)
NewDelhi == Point(286139, 772090)
London == Point(515007, 1246)
NewYork == Point(406892, 740445)
South == Point(-45 * Degree, 90 * Degree)
OutOfRange == Point(95 * Degree, 190 * Degree)

Points == {Origin, EquatorEast, Antimeridian, NorthPole, Chennai, ChennaiGate,
           NewDelhi, London, NewYork, South, OutOfRange}

Distance(P, Q) == calculate_distance(P.lat, P.lng, Q.lat, Q.lng)

InitDistance ==
    /\ store = {}
    /\ work = {}
    /\ pending = << >>
    /\ broken = FALSE
    /\ nextId = 1
    /\ resp = NoResponse
    /\ calc \in {[pc |-> "input", A |-> A, B |-> B, C |-> C] :
                    A \in Points, B \in Points, C \in Points}

Do_calculate_distance ==
    /\ calc.pc = "input"
    /\ calc' = [pc |-> "done", A |-> calc.A, B |-> calc.B, C |-> calc.C,
                AA |-> Distance(calc.A, calc.A),
                AB |-> Distance(calc.A, calc.B),
                BA |-> Distance(calc.B, calc.A),
                BC |-> Distance(calc.B, calc.C),
                AC |-> Distance(calc.A, calc.C)]
    /\ UNCHANGED << store, work, pending, broken, nextId, resp >>

NextDistance == Do_calculate_distance

SpecDistance == InitDistance /\ [][NextDistance]_vars

----------------------------------------------------------------------------
(* Concurrent calls of the distance helper. Each thread runs the statements   *)
(* of calculate_distance one at a time on the local variables of its own call, *)
(* while other threads do the same and requests are served.                    *)

Threads == {1, 2}

\* The arguments of the calls.
CallArgs == {<< Chennai, NewDelhi >>, << London, NewYork >>,
             << Point(121 * Degree, 0), Point(59 * Degree, 180 * Degree) >>}

NoArgs == << >>
NoResult == [ok |-> FALSE, km |-> -1]

\* The local variables of a call before its first statement.
NewFrame == [lat1 |-> 0, lng1 |-> 0, lat2 |-> 0, lng2 |-> 0, dlat |-> 0, dlon |-> 0,
             a |-> [hi |-> 0, lo |-> 0], c |-> 0]

OwnMutant(t) == 1

\* The frame that holds the local variables of thread t's call: its own.
Own(t) == t

InitCalls ==
    /\ store = {}
    /\ work = {}
    /\ pending = << >>
    /\ broken = FALSE
    /\ nextId = 1
    /\ resp = NoResponse
    /\ calc = [pc |-> [t \in Threads |-> "idle"],
               args |-> [t \in Threads |-> NoArgs],
               frame |-> [t \in Threads |-> NewFrame],
               result |-> [t \in Threads |-> NoResult]]

SessionUnchanged == UNCHANGED << store, work, pending, broken, nextId, resp >>

\* calculate_distance(lat1, lng1, lat2, lng2) is called.
Do_call ==
    \E t \in Threads, args \in CallArgs :
        /\ calc.pc[t] \in {"idle", "returned"}
        /\ calc' = [calc EXCEPT !.pc[t] = "line9", !.args[t] = args,
                                !.frame[Own(t)] = NewFrame, !.result[t] = NoResult]
        /\ SessionUnchanged

\* lat1, lng1, lat2, lng2 = map(math.radians, [lat1, lng1, lat2, lng2])
Do_line9 ==
    \E t \in Threads :
        /\ calc.pc[t] = "line9"
        /\ LET P == calc.args[t][1]
               Q == calc.args[t][2]
           IN  calc' = [calc EXCEPT !.pc[t] = "line12",
                            !.frame[Own(t)].lat1 = radians(P.lat),
                            !.frame[Own(t)].lng1 = radians(P.lng),
                            !.frame[Own(t)].lat2 = radians(Q.lat),
                            !.frame[Own(t)].lng2 = radians(Q.lng)]
        /\ SessionUnchanged

\* dlat = lat2 - lat1; dlon = lng2 - lng1
Do_line12 ==
    \E t \in Threads :
        /\ calc.pc[t] = "line12"
        /\ LET f == calc.frame[Own(t)]
           IN  calc' = [calc EXCEPT !.pc[t] = "line14",
                            !.frame[Own(t)].dlat = f.lat2 - f.lat1,
                            !.frame[Own(t)].dlon = f.lng2 - f.lng1]
        /\ SessionUnchanged

\* a = ...
Do_line14 ==
    \E t \in Threads :
        /\ calc.pc[t] = "line14"
        /\ LET f == calc.frame[Own(t)]
           IN  calc' = [calc EXCEPT !.pc[t] = "line15",
                            !.frame[Own(t)].a = haversine_a(f.lat1, f.lat2, f.dlat, f.dlon)]
        /\ SessionUnchanged

\* c = 2 * math.asin(math.sqrt(a)), or the ValueError leaves the call
Do_line15 ==
    \E t \in Threads :
        /\ calc.pc[t] = "line15"
        /\ LET f == calc.frame[Own(t)]
           IN  IF InDomain(f.a)
               THEN calc' = [calc EXCEPT !.pc[t] = "line17",
                                 !.frame[Own(t)].c = central_c(f.a)]
               ELSE calc' = [calc EXCEPT !.pc[t] = "returned",
                                 !.frame[Own(t)] = NewFrame,
                                 !.result[t] = ValueError]
        /\ SessionUnchanged

\* km = 6371 * c; return km
Do_line17 ==
    \E t \in Threads :
        /\ calc.pc[t] = "line17"
        /\ calc' = [calc EXCEPT !.pc[t] = "returned",
                        !.frame[Own(t)] = NewFrame,
                        !.result[t] = Returned(ScaleKm(calc.frame[Own(t)].c))]
        /\ SessionUnchanged

\* Requests served while the calls run: a facility is added, the table is cleared.
Do_add_one_facility ==
    /\ Room(1)
    /\ Apply(add_facility(AddBody(NoId, NameG, CoordSpec), 1, TRUE, TRUE))

Do_clear_all_facilities == Apply(clear_facilities(1, TRUE, TRUE))

NextCalls ==
    \/ Do_call
    \/ Do_line9
    \/ Do_line12
    \/ Do_line14
    \/ Do_line15
    \/ Do_line17
    \/ Do_add_one_facility
    \/ Do_clear_all_facilities

SpecCalls == InitCalls /\ [][NextCalls]_vars

----------------------------------------------------------------------------
(* Nearby facilities. *)

\* A place of the places search: its place_id and, unless the result lacks
\* geometry.location, its latitude and longitude.
Place(place_id, located, lat, lng) ==
    [place_id |-> place_id, located |-> located, lat |-> lat, lng |-> lng]

RECURSIVE nearby_recordsMutant(_, _, _)
\* The loop with the places farther away than a kilometre left out.
nearby_recordsMutant(lat, lng, results) ==
    IF results = << >> THEN [ok |-> TRUE, facilities |-> << >>]
    ELSE LET place == Head(results)
             distance == calculate_distance(lat, lng, place.lat, place.lng)
             rest == nearby_recordsMutant(lat, lng, Tail(results))
         IN  IF ~place.located \/ ~distance.ok THEN [ok |-> FALSE, facilities |-> << >>]
             ELSE IF ~rest.ok THEN rest
             ELSE IF distance.km > Kilometre THEN rest
             ELSE [ok |-> TRUE,
                   facilities |-> << [id |-> place.place_id,
                                      distance |-> FormatKm(distance.km)] >>
                                    \o rest.facilities]

RECURSIVE nearby_records(_, _, _)
\* The loop over places_result['results']: one record a place, in order; not ok
\* when float('N/A') or calculate_distance raises.
nearby_records(lat, lng, results) ==
    IF results = << >> THEN [ok |-> TRUE, facilities |-> << >>]
    ELSE LET place == Head(results)
             distance == calculate_distance(lat, lng, place.lat, place.lng)
             rest == nearby_records(lat, lng, Tail(results))
         IN  IF ~place.located \/ ~distance.ok THEN [ok |-> FALSE, facilities |-> << >>]
             ELSE IF ~rest.ok THEN rest
             ELSE [ok |-> TRUE,
                   facilities |-> << [id |-> place.place_id,
                                      distance |-> FormatKm(distance.km)] >>
                                    \o rest.facilities]

\* GET /nearby-facilities. current_lat, current_lng: the query strings (Absent
\* without the parameter); places: what gmaps.places_nearby gives, [kind, results],
\* kind being "results", "no_results" (None, or a dict without 'results') or "raise".
nearby_facilities(current_lat, current_lng, places, m1, m2) ==
    LET s == Session
        op == "nearby_facilities"
    IN  IF Falsy(current_lat) \/ current_lat = Absent
           \/ Falsy(current_lng) \/ current_lng = Absent
        THEN Outcome(s, NotifyThen(op, 400, m1, NoDetail))
        ELSE IF ~IsFloat(current_lat) \/ ~IsFloat(current_lng)
        THEN Outcome(s, ExceptBranch(op, 500, 0, m1))
        ELSE IF places.kind = "raise"
        THEN Outcome(s, ExceptBranch(op, 500, 0, m1))
        ELSE IF places.kind = "no_results"
        THEN Outcome(s, NotifyInTry(op, 404, 500, m1, m2, NoDetail))
        ELSE
        LET loop == nearby_records(FloatOf(current_lat), FloatOf(current_lng),
                                   places.results)
        IN  IF ~loop.ok THEN Outcome(s, ExceptBranch(op, 500, 0, m1))
            ELSE Outcome(s, NotifyInTry(op, 200, 500, m1, m2,
                                        [facilities |-> loop.facilities]))

\* Requests: a reference point and the answer of the places search.
GatePlace == Place("gate", TRUE, ChennaiGate.lat, ChennaiGate.lng)
DelhiPlace == Place("delhi", TRUE, NewDelhi.lat, NewDelhi.lng)
FarPlace == Place("far", TRUE, 59 * Degree, 180 * Degree)
LondonPlace == Place("london", TRUE, London.lat, London.lng)
BarePlace == Place("bare", FALSE, 0, 0)

Places == {GatePlace, DelhiPlace, LondonPlace, FarPlace, BarePlace}

PlacesResults ==
    {[kind |-> "results", results |-> l] : l \in ListsUpTo(Places, 2)}
      \cup {[kind |-> k, results |-> << >>] : k \in {"no_results", "raise"}}

ChennaiLat == << "1", "3", ".", "0", "8", "2", "7" >>
ChennaiLng == << "8", "0", ".", "2", "7", "0", "7" >>

NearbyRequests ==
    {[current_lat |-> ChennaiLat, current_lng |-> ChennaiLng, places |-> p] :
        p \in PlacesResults}
      \cup {[current_lat |-> << "1", "2", "1" >>, current_lng |-> << "0" >>,
             places |-> p] : p \in PlacesResults}
      \cup {[current_lat |-> lat, current_lng |-> ChennaiLng,
             places |-> [kind |-> "results", results |-> << GatePlace >>]] :
               lat \in {<< "x" >>, << >>, Absent}}

\* The handler uses no session; calc keeps the request it answered.
Do_nearby_facilities ==
    \E r \in NearbyRequests, m \in Mails :
        /\ resp' = nearby_facilities(r.current_lat, r.current_lng, r.places,
                                     m[1], m[2]).resp
        /\ calc' = [pc |-> "nearby", request |-> r]
        /\ UNCHANGED << store, work, pending, broken, nextId >>

NextNearby == Do_nearby_facilities

SpecNearby == Init /\ [][NextNearby]_vars

----------------------------------------------------------------------------
(* Rejected batches among other requests. The facilities of the batches that *)
(* are rejected carry a name of their own; every other request uses NameG.    *)

NameRejected == << "R", "1" >>

\* Lists of two elements, the first complete, the second without coordinates or
\* without a name.
RejectedBodies ==
    {[is_list |-> TRUE, items |-> << BatchElement(NameRejected, CoordSpec), e >>] :
        e \in {BatchElement(NameRejected, CoordEmpty), BatchElement(None, CoordSpec)}}

\* A batch that the loop rejects at its second element, the e-mail being sent.
Do_rejected_batch ==
    \E body \in RejectedBodies, t \in Times :
        /\ Room(1)
        /\ Apply(add_multiple_facilities_batch(body, t, TRUE, TRUE))

NextResidue ==
    \/ Do_rejected_batch
    \/ Do_add_facility
    \/ Do_update_facility
    \/ Do_batch_update_facilities
    \/ Do_delete_facility
    \/ Do_clear_facilities
    \/ Do_get_all_facilities

SpecResidue == Init /\ [][NextResidue]_vars

----------------------------------------------------------------------------
(* Requests that fail in the database among valid ones. Every e-mail of the  *)
(* failing and of the valid additions is sent.                                *)

\* POST /airport/facilities with coordinates wider than the column: the INSERT
\* of the commit fails.
Do_failed_add ==
    \E t \in Times :
        /\ Room(1)
        /\ Apply(add_facility(AddBody(NoId, NameG, CoordLong), t, TRUE, TRUE))

\* PUT /airport/facilities with a null name or too wide coordinates for a stored
\* facility: the UPDATE of the commit fails.
Do_failed_update ==
    \E i \in RequestIds, t \in Times,
       d \in {[name |-> None], [coordinates |-> CoordLong]} :
        /\ i \in Ids(work)
        /\ Apply(update_facility(WithId(d, i), t, TRUE, TRUE))

\* POST /airport/facilities/batch with one element of too wide coordinates.
Do_failed_batch ==
    \E t \in Times :
        /\ Room(1)
        /\ Apply(add_multiple_facilities_batch(
                    [is_list |-> TRUE, items |-> << BatchElement(NameG, CoordLong) >>],
                    t, TRUE, TRUE))

\* A valid body of POST /airport/facilities.
ValidAdds == {AddBody(NoId, NameG, c) : c \in StoredCoords}

Do_valid_add ==
    \E data \in ValidAdds, t \in Times :
        /\ Room(1)
        /\ Apply(add_facility(data, t, TRUE, TRUE))

NextRollback ==
    \/ Do_failed_add
    \/ Do_failed_update
    \/ Do_failed_batch
    \/ Do_valid_add
    \/ Do_delete_facility
    \/ Do_get_facility_by_id

SpecRollback == Init /\ [][NextRollback]_vars

----------------------------------------------------------------------------
(* Requests served at the same time. app.run serves each request in a thread *)
(* of its own, all on the one session: the statements of a clear request and  *)
(* of a stats request are steps, and whole requests that add or delete a       *)
(* facility run between them.                                                  *)

CategoryLounge == << "L" >>

\* The local variables of clear_facilities: the position, the rows read at line
\* 884, and the rows its DELETE removed.
NoClear == [pc |-> "idle", facilities |-> {}, removed |-> {}]

\* The local variables of get_facility_stats: total_facilities, category_stats
\* as pairs of a category and its count, and the id of latest_facility.
NoStats == [pc |-> "idle", total_facilities |-> 0, category_stats |-> {},
            latest_facility |-> NoId]

InitInterleaved ==
    /\ store = {}
    /\ work = {}
    /\ pending = << >>
    /\ broken = FALSE
    /\ nextId = 1
    /\ resp = NoResponse
    /\ calc = [clear |-> NoClear, stats |-> NoStats]

\* The session and the table become s.
Becomes(s) ==
    /\ store' = s.store
    /\ work' = s.work
    /\ pending' = s.pending
    /\ broken' = s.broken
    /\ nextId' = s.nextId

SessionSame == UNCHANGED << store, work, pending, broken, nextId >>

\* A statement of the clear request raised: its catch-all branch answers.
ClearFails(s, m1) ==
    /\ Becomes(s)
    /\ resp' = ExceptBranch("clear_facilities", 500, 0, m1)
    /\ calc' = [calc EXCEPT !.clear = [NoClear EXCEPT !.pc = "done"]]

\* facilities = session.query(AirportFacility).all(); count = len(facilities);
\* 404 when count is 0
Do_clear_line884 ==
    \E t \in Times, m \in Mails :
        /\ calc.clear.pc \in {"idle", "done"}
        /\ LET f == Autoflush(Session, t)
           IN  IF ~f.ok THEN ClearFails(f.s, m[1])
               ELSE IF Cardinality(f.s.work) = 0
               THEN /\ Becomes(f.s)
                    /\ resp' = Response("clear_facilities", 404, 0, NoDetail)
                    /\ calc' = [calc EXCEPT !.clear = [NoClear EXCEPT !.pc = "done"]]
               ELSE /\ Becomes(f.s)
                    /\ calc' = [calc EXCEPT !.clear = [pc |-> "line893",
                                                       facilities |-> f.s.work,
                                                       removed |-> {}]]
                    /\ UNCHANGED resp

\* session.query(AirportFacility).delete()
Do_clear_line893 ==
    \E t \in Times, m \in Mails :
        /\ calc.clear.pc = "line893"
        /\ LET f == Autoflush(Session, t)
           IN  IF ~f.ok THEN ClearFails(f.s, m[1])
               ELSE /\ Becomes([f.s EXCEPT !.work = {}])
                    /\ calc' = [calc EXCEPT !.clear.pc = "line894",
                                            !.clear.removed = f.s.work]
                    /\ UNCHANGED resp

\* session.commit()
Do_clear_line894 ==
    \E t \in Times, m \in Mails :
        /\ calc.clear.pc = "line894"
        /\ LET c == Commit(Session, t)
           IN  IF ~c.ok THEN ClearFails(c.s, m[1])
               ELSE /\ Becomes(c.s)
                    /\ calc' = [calc EXCEPT !.clear.pc = "line897"]
                    /\ UNCHANGED resp

\* notify_clear_success(...), and the 200 with total_count and cleared_facilities
Do_clear_line897 ==
    \E m \in Mails :
        /\ calc.clear.pc = "line897"
        /\ resp' = NotifyInTry("clear_facilities", 200, 500, m[1], m[2],
                               [deleted |-> Ids(calc.clear.facilities),
                                total_count |-> Cardinality(calc.clear.facilities)])
        /\ calc' = [calc EXCEPT !.clear.pc = "done"]
        /\ SessionSame

\* A statement of the stats request raised: its catch-all branch answers.
StatsFails(s, m1) ==
    /\ Becomes(s)
    /\ resp' = ExceptBranch("get_facility_stats", 500, 0, m1)
    /\ calc' = [calc EXCEPT !.stats = NoStats]

\* total_facilities = session.query(AirportFacility).count()
Do_stats_line506 ==
    \E t \in Times, m \in Mails :
        /\ calc.stats.pc = "idle"
        /\ LET f == Autoflush(Session, t)
           IN  IF ~f.ok THEN StatsFails(f.s, m[1])
               ELSE /\ Becomes(f.s)
                    /\ calc' = [calc EXCEPT !.stats = [NoStats EXCEPT
                                    !.pc = "line508",
                                    !.total_facilities = Cardinality(f.s.work)]]
                    /\ UNCHANGED resp

\* category_counts = session.query(category, func.count(id)).group_by(category).all()
Do_stats_line508 ==
    \E t \in Times, m \in Mails :
        /\ calc.stats.pc = "line508"
        /\ LET f == Autoflush(Session, t)
           IN  IF ~f.ok THEN StatsFails(f.s, m[1])
               ELSE /\ Becomes(f.s)
                    /\ calc' = [calc EXCEPT
                                  !.stats.pc = "line514",
                                  !.stats.category_stats =
                                      {[category |-> c,
                                        count |-> Cardinality({r \in f.s.work :
                                                                 r.category = c})] :
                                         c \in {r.category : r \in f.s.work}}]
                    /\ UNCHANGED resp

\* latest_facility = session.query(AirportFacility).order_by(id.desc()).first()
Do_stats_line514 ==
    \E t \in Times, m \in Mails :
        /\ calc.stats.pc = "line514"
        /\ LET f == Autoflush(Session, t)
           IN  IF ~f.ok THEN StatsFails(f.s, m[1])
               ELSE /\ Becomes(f.s)
                    /\ calc' = [calc EXCEPT
                                  !.stats.pc = "line518",
                                  !.stats.latest_facility =
                                      IF f.s.work = {} THEN NoId
                                      ELSE << CHOOSE i \in Ids(f.s.work) :
                                                \A j \in Ids(f.s.work) : j <= i >>]
                    /\ UNCHANGED resp

\* notify_success(...), and the 200 with the three values
Do_stats_line518 ==
    \E m \in Mails :
        /\ calc.stats.pc = "line518"
        /\ resp' = NotifyInTry("get_facility_stats", 200, 500, m[1], m[2],
                               [total_facilities |-> calc.stats.total_facilities,
                                category_stats |-> calc.stats.category_stats,
                                latest_facility |-> calc.stats.latest_facility])
        /\ calc' = [calc EXCEPT !.stats = NoStats]
        /\ SessionSame

\* A facility of another category is added by a whole request.
Do_add_one_lounge ==
    /\ Room(1)
    /\ Apply(add_facility([AddBody(NoId, NameG, CoordSpec) EXCEPT
                              !.category = CategoryLounge], 1, TRUE, TRUE))

\* A facility is deleted by a whole request.
Do_delete_one_facility ==
    \E id \in RequestIds : Apply(delete_facility(<< id >>, 1, TRUE, TRUE))

NextInterleaved ==
    \/ Do_clear_line884
    \/ Do_clear_line893
    \/ Do_clear_line894
    \/ Do_clear_line897
    \/ Do_stats_line506
    \/ Do_stats_line508
    \/ Do_stats_line514
    \/ Do_stats_line518
    \/ Do_add_one_facility
    \/ Do_add_one_lounge
    \/ Do_delete_one_facility

SpecInterleaved == InitInterleaved /\ [][NextInterleaved]_vars

----------------------------------------------------------------------------
(* Properties of the facility service. *)

\* C1: every request, on every outcome branch, makes a send_email call: no
\* response is given before at least one notification was sent.
C1_EveryOutcomeSendsEmail == resp.op # "none" => resp.emails >= 1

\* C2: the created_at of a stored facility is the one it was inserted with; no
\* request changes it afterwards.
C2_CreatedAtNeverChanges == \A r \in store \cup work : r.created_at = r.created0

\* "Exactly two comma-separated numeric substrings", read off the characters:
\* a number is an optional sign, digits with at most one '.', at least one digit,
\* with blanks allowed around it.
NumberText(s) ==
    \E i, j \in 1..Len(s) :
        /\ i <= j
        /\ \A k \in 1..Len(s) : (k < i \/ k > j) => s[k] = " "
        /\ LET first == IF s[i] \in {"+", "-"} THEN i + 1 ELSE i
           IN  /\ \A k \in first..j : s[k] \in Digits \cup {"."}
               /\ \E k \in first..j : s[k] \in Digits
               /\ Cardinality({k \in first..j : s[k] = "."}) <= 1

TwoNumbers(c) ==
    \E k \in 1..Len(c) :
        /\ c[k] = ","
        /\ \A j \in 1..Len(c) : c[j] = "," => j = k
        /\ NumberText(SubSeq(c, 1, k - 1))
        /\ NumberText(SubSeq(c, k + 1, Len(c)))

NoSteps(r) == "navigation_steps" \in DOMAIN r.detail => r.detail.navigation_steps = << >>

\* C3: a navigate request for a stored facility whose coordinates do not split
\* into exactly two comma-separated numbers is never answered 200 and never
\* with navigation steps, whatever the position, the directions service and the
\* mail server do.
C3_NavigateRejectsMalformed ==
    \A f \in store, r \in NavRequests, t \in Times, m \in Mails :
        ~TwoNumbers(f.coordinates) =>
            LET out == navigate(r.current_lat, r.current_lng, << f.id >>,
                                r.directions, t, m[1], m[2])
            IN  out.resp.status # 200 /\ NoSteps(out.resp)

\* A navigate request read a stored facility whose coordinates have two parts that
\* are not both numbers, and was answered by the catch-all branch.
C3_Witness ==
    /\ resp.op = "navigate" /\ resp.status = 500 /\ ~resp.crashed
    /\ "facility" \in DOMAIN resp.detail
    /\ \E f \in store : /\ f.id = resp.detail.facility
                        /\ Len(Split(f.coordinates)) = 2
                        /\ ~TwoNumbers(f.coordinates)

\* The facility a 201 response reports as created holds the coordinates c.
StoredWith(out, c) ==
    out.resp.status = 201 =>
        \E r \in out.s.store : r.id \in out.resp.detail.created /\ r.coordinates = c

\* add_facility treats the coordinates c as it treats the documented "<lat>, <lng>"
\* string, and stores c as it is.
AddTakes(c) ==
    \A t \in Times, m \in Mails :
        LET out == add_facility(AddBody(NoId, NameG, c), t, m[1], m[2])
            doc == add_facility(AddBody(NoId, NameG, CoordSpec), t, m[1], m[2])
        IN  out.resp.status = doc.resp.status /\ StoredWith(out, c)

\* The same of add_multiple_facilities_batch, c being in the only or in the
\* second element of the list.
BatchTakes(c) ==
    \A t \in Times, m \in Mails, before \in {<< >>, << BatchElement(NameG, CoordSpec) >>} :
        LET list(x) == [is_list |-> TRUE,
                        items |-> Append(before, BatchElement(NameG, x))]
            out == add_multiple_facilities_batch(list(c), t, m[1], m[2])
            doc == add_multiple_facilities_batch(list(CoordSpec), t, m[1], m[2])
        IN  out.resp.status = doc.resp.status /\ StoredWith(out, c)

\* C4 as stated: add_facility and add_multiple_facilities_batch accept any
\* non-empty coordinates string, whatever its format, and store it unchanged.
C4_AnyCoordinatesAccepted == \A c \in NonEmptyCoords : AddTakes(c) /\ BatchTakes(c)

\* C4 amended: the two handlers accept any non-empty coordinates string of at most
\* CoordinatesMaxLen characters, whatever its format, and store it unchanged; they
\* neither parse nor validate it.
C4_CoordinatesWithinWidthAccepted ==
    \A c \in NonEmptyCoords :
        Len(c) <= CoordinatesMaxLen => AddTakes(c) /\ BatchTakes(c)

\* add_facility created a facility whose coordinates are not of the documented
\* format, and they are stored as sent.
C4_Witness ==
    /\ resp.op = "add_facility" /\ resp.status = 201
    /\ \E r \in store : r.id \in resp.detail.created /\ r.coordinates = CoordAlpha

\* C5: the id of a created facility is the store's: no two facilities have one
\* id, a facility created gets an id no facility had, and an id the request body
\* carries changes nothing of what add_facility does.
C5_IdsAssignedByStore ==
    /\ PrimaryKeyOk(store) /\ PrimaryKeyOk(work)
    /\ \A data \in AddBodies, t \in Times, m \in Mails :
          LET out == add_facility(data, t, m[1], m[2])
              plain == add_facility([data EXCEPT !.id = NoId], t, m[1], m[2])
          IN  /\ out.s = plain.s
              /\ out.resp.status = plain.resp.status
              /\ out.resp.status = 201 =>
                    /\ out.resp.detail.created = plain.resp.detail.created
                    /\ out.resp.detail.created \cap Ids(store) = {}
    /\ \A body \in BatchBodies, t \in Times, m \in Mails :
          LET out == add_multiple_facilities_batch(body, t, m[1], m[2])
          IN  out.resp.status = 201 =>
                 /\ Cardinality(out.resp.detail.created) = Len(body.items)
                 /\ out.resp.detail.created \cap Ids(store) = {}
                 /\ out.resp.detail.created \subseteq Ids(out.s.store)

\* add_facility created a second facility from a body that carried an id, and the
\* facility did not get that id.
C5_Witness ==
    /\ resp.op = "add_facility" /\ resp.status = 201
    /\ resp.detail.body_id # NoId
    /\ resp.detail.body_id[1] \notin resp.detail.created
    /\ Cardinality(store) >= 2

\* C6: when clear_facilities answers 200 the store holds no facility afterwards,
\* and when the store is empty already it answers 404 and the store stays empty.
C6_ClearEmptiesOrAnswers404 ==
    \A t \in Times, m \in Mails :
        LET out == clear_facilities(t, m[1], m[2])
        IN  /\ out.resp.status = 200 => out.s.store = {}
            /\ store = {} => out.resp.status = 404 /\ out.s.store = {}

----------------------------------------------------------------------------
(* Properties of the distance helper. *)

\* The tolerances of the comparisons: ten metres, and 10^-6 of a cosine.
NearKm == Kilometre \div 100
NearOne == Scale \div (10 ^ 6)

\* Within a degree of the antipode the formula is ill-conditioned (asin is steep
\* at 1), and the fixed-point result is compared to a hundred metres.
Near(km) == IF km <= 19900 * Kilometre THEN NearKm ELSE 10 * NearKm

\* 6371 * c for an angle c in radians, in ten-thousandths of a kilometre.
ArcKm(c) == 6371 * (c \div Limb) + (6371 * (c % Limb)) \div Limb

\* The central angle that a distance km stands for at radius 6371.
CentralAngle(km) == (km \div 6371) * Limb + ((km % 6371) * Limb) \div 6371

\* The spherical law of cosines: the cosine of the central angle between P and Q.
CosCentral(P, Q) ==
    LET lat1 == radians(P.lat)
        lat2 == radians(Q.lat)
    IN  Mul(Sin(lat1), Sin(lat2))
          + Mul(Mul(Cos(lat1), Cos(lat2)), Cos(radians(Q.lng) - radians(P.lng)))

\* d is the great-circle distance between P and Q on a sphere of radius 6371 km:
\* its central angle has the cosine the law of cosines gives, and along a
\* meridian or along the equator it is the arc of the angle between the points.
GreatCircle(P, Q, d) ==
    /\ d.ok
    /\ Abs(Cos(CentralAngle(d.km)) - CosCentral(P, Q)) <= NearOne
    /\ P.lng = Q.lng /\ Abs(P.lat) <= 90 * Degree /\ Abs(Q.lat) <= 90 * Degree
          => Abs(d.km - ArcKm(radians(Abs(Q.lat - P.lat)))) <= Near(d.km)
    /\ P.lat = 0 /\ Q.lat = 0 /\ Abs(Q.lng - P.lng) <= 180 * Degree
          => Abs(d.km - ArcKm(radians(Abs(Q.lng - P.lng)))) <= Near(d.km)

C8_DistanceToSelfIsZero == calc.pc = "done" => calc.AA = Returned(0)

\* The distance from Chennai to Chennai was computed.
C8_Witness == calc.pc = "done" /\ calc.A = Chennai /\ calc.AA.ok

\* C9: the distance from A to B is the distance from B to A.
C9_Symmetric == calc.pc = "done" => calc.AB = calc.BA

\* Both directions were computed for two points that differ in latitude and in
\* longitude, and the distance is not 0.
C9_Witness ==
    /\ calc.pc = "done"
    /\ calc.A.lat # calc.B.lat /\ calc.A.lng # calc.B.lng
    /\ calc.AB.ok /\ calc.AB.km > 0 /\ calc.BA.ok

\* C10: the distance from A to C is at most the distance from A to B plus the
\* distance from B to C, up to the rounding of the arithmetic (ten metres).
C10_TriangleInequality ==
    calc.pc = "done" /\ calc.AB.ok /\ calc.BC.ok /\ calc.AC.ok
        => calc.AC.km <= calc.AB.km + calc.BC.km + NearKm

\* The three distances were computed for three points on one meridian, B
\* between A and C, where the two sides of the inequality meet.
C10_Witness ==
    /\ calc.pc = "done"
    /\ calc.A = Chennai /\ calc.B = ChennaiGate /\ calc.C = NorthPole
    /\ calc.AB.ok /\ calc.BC.ok /\ calc.AC.ok
    /\ calc.AC.km >= calc.AB.km + calc.BC.km - NearKm

\* C11: a distance that calculate_distance returns is not negative.
C11_NonNegative ==
    calc.pc = "done" =>
        \A d \in {calc.AA, calc.AB, calc.BA, calc.BC, calc.AC} : d.ok => d.km >= 0

\* A distance was returned for a point outside the latitude and longitude ranges
\* and a point in the southern hemisphere, and it is positive.
C11_Witness ==
    /\ calc.pc = "done" /\ calc.A = OutOfRange /\ calc.B = South
    /\ calc.AB.ok /\ calc.AB.km > 0

\* C12: two calls of calculate_distance with the same arguments return the same,
\* whatever requests were served and whatever other calls ran in between.
C12_Deterministic ==
    \A t, u \in Threads :
        /\ calc.pc[t] = "returned" /\ calc.pc[u] = "returned"
        /\ calc.args[t] = calc.args[u]
        => calc.result[t] = calc.result[u]

\* Two calls with the same arguments have returned a distance, and the store
\* holds a facility that it did not hold at the start.
C12_Witness ==
    /\ calc.pc[1] = "returned" /\ calc.pc[2] = "returned"
    /\ calc.args[1] = calc.args[2]
    /\ calc.result[1].ok /\ calc.result[2].ok
    /\ store # {}

\* A point within the ranges of latitude and longitude.
InRange(P) == Abs(P.lat) <= 90 * Degree /\ Abs(P.lng) <= 180 * Degree

\* C13: calculate_distance returns no distance when a coordinate is outside the
\* valid ranges (latitude beyond +/-90, longitude beyond +/-180).
C13_OutOfRangeRejected ==
    calc.pc = "done" =>
        /\ ~InRange(calc.A) => ~calc.AA.ok
        /\ ~InRange(calc.A) \/ ~InRange(calc.B) => ~calc.AB.ok /\ ~calc.BA.ok
        /\ ~InRange(calc.B) \/ ~InRange(calc.C) => ~calc.BC.ok
        /\ ~InRange(calc.A) \/ ~InRange(calc.C) => ~calc.AC.ok


\* Whether a of the call calculate_distance(lat1, lng1, lat2, lng2) is outside the
\* domain of sqrt and asin.
OutsideDomain(lat1, lng1, lat2, lng2) ==
    ~InDomain(haversine_a(radians(lat1), radians(lat2),
                          radians(lat2) - radians(lat1),
                          radians(lng2) - radians(lng1)))

\* The last request was a nearby-facilities request with numeric reference
\* point whose places search gave a list.
NearbySearched ==
    /\ calc.pc = "nearby"
    /\ resp.op = "nearby_facilities"
    /\ calc.request.current_lat \notin {Absent, << >>}
    /\ NumberText(calc.request.current_lat)
    /\ NumberText(calc.request.current_lng)
    /\ calc.request.places.kind = "results"

\* Some place of the last nearby-facilities request has a outside the domain.
NearbyOutsideDomain ==
    /\ NearbySearched
    /\ \E i \in 1..Len(calc.request.places.results) :
          LET place == calc.request.places.results[i]
          IN  /\ place.located
              /\ OutsideDomain(FloatOf(calc.request.current_lat),
                               FloatOf(calc.request.current_lng),
                               place.lat, place.lng)

\* C14: when a is outside the domain of sqrt and asin, calculate_distance raises
\* (no clamped and no sentinel distance is returned), and a nearby-facilities
\* request with such a place is answered 500 without any facility list.
C14_DomainErrorPropagates ==
    /\ \A P \in Points \cup {Point(121 * Degree, 0)},
          Q \in Points \cup {Point(59 * Degree, 180 * Degree)} :
          OutsideDomain(P.lat, P.lng, Q.lat, Q.lng)
            => calculate_distance(P.lat, P.lng, Q.lat, Q.lng) = ValueError
    /\ NearbyOutsideDomain => resp.status = 500 /\ resp.detail = NoDetail

C14_Witness ==
    /\ NearbyOutsideDomain
    /\ calc.request.places.results[1] = GatePlace
    /\ resp.status = 500
    /\ ~resp.crashed


\* Every call that has returned gave what calculate_distance gives for its
\* arguments when it runs alone.
ReturnedAsAlone ==
    \A t \in Threads :
        calc.pc[t] = "returned"
          => calc.result[t] = Distance(calc.args[t][1], calc.args[t][2])

\* A step of a call: the position or the local variables of some call change.
CallStep == calc' # calc

\* C15: concurrent calls of calculate_distance, interleaved in any way, each return
\* what the call returns when run alone, and no step of a call changes the
\* facility store, the session or the response and e-mails of a request.
C15_StatelessThreadSafe ==
    /\ []ReturnedAsAlone
    /\ [][CallStep => UNCHANGED << store, work, pending, broken, nextId, resp >>]_vars

\* One call has returned a distance while a call with other arguments is in the
\* middle of the formula, after a facility was stored.
C15_Witness ==
    /\ calc.pc[1] = "returned" /\ calc.result[1].ok
    /\ calc.pc[2] = "line15"
    /\ calc.args[1] # calc.args[2]
    /\ store # {}


\* The digits before and after the point of a text "d..d.dd km" as hundredths;
\* -1 for a text of another shape.
HundredthsOf(text) ==
    LET n == Len(text)
    IN  IF /\ n >= 7
           /\ SubSeq(text, n - 2, n) = << " ", "k", "m" >>
           /\ text[n - 5] = "."
           /\ \A k \in (1..(n - 6)) \cup {n - 4, n - 3} : text[k] \in Digits
        THEN 100 * IntOf(SubSeq(text, 1, n - 6)) + IntOf(SubSeq(text, n - 4, n - 3))
        ELSE -1

\* text is the distance km (ten-thousandths of a kilometre) with two decimals
\* and " km".
TwoDecimalsKm(text, km) ==
    /\ HundredthsOf(text) >= 0
    /\ Abs(100 * HundredthsOf(text) - km) <= Kilometre \div 200

\* C16: a 200 answer of nearby_facilities holds one record for every place of the
\* places search, in the order of the search, none dropped and none added, each
\* with the distance from the reference point to the place as calculate_distance
\* gives it, written with two decimals and " km".
C16_OneRecordPerPlace ==
    NearbySearched /\ resp.status = 200 =>
        LET results == calc.request.places.results
            facilities == resp.detail.facilities
        IN  /\ Len(facilities) = Len(results)
            /\ \A i \in 1..Len(results) :
                  LET d == calculate_distance(FloatOf(calc.request.current_lat),
                                              FloatOf(calc.request.current_lng),
                                              results[i].lat, results[i].lng)
                  IN  /\ facilities[i].id = results[i].place_id
                      /\ d.ok
                      /\ TwoDecimalsKm(facilities[i].distance, d.km)

\* New Delhi, then the gate: "1755.80 km" or so for the first, "0.11 km" or so
\* for the second.
C16_Witness ==
    /\ NearbySearched /\ resp.status = 200
    /\ calc.request.places.results = << DelhiPlace, GatePlace >>
    /\ resp.detail.facilities[1].id = "delhi"
    /\ HundredthsOf(resp.detail.facilities[1].distance) > 1000 * 100
    /\ resp.detail.facilities[2].id = "gate"
    /\ HundredthsOf(resp.detail.facilities[2].distance) \in 1..100


\* The session holds nothing but the committed table: no object is pending, no
\* flushed row waits for a commit, no failed flush waits for a rollback.
SessionClean == pending = << >> /\ work = store /\ ~broken

\* The stored facilities whose id is in ids.
Matched(ids) == {r \in store : r.id \in ids}

\* The frame of a batch update that answers 200 or finds no facility.
BatchUpdateFrame(data, out) ==
    LET hit == Matched(data.ids)
    IN  /\ out.resp.status = 200 =>
              out.s.store = (store \ hit) \cup {SetAttrs(r, data.update_data) : r \in hit}
        /\ data.ids # {} /\ hit = {} =>
              out.resp.status = 404 /\ out.s.store = store

\* C17: batch_update_facilities sets every key of update_data on exactly the
\* stored facilities whose id is in ids and leaves every other facility as it is,
\* ids that match nothing being ignored; when no id matches it answers 404 and
\* the store is unchanged.
C17_BatchUpdateFrame ==
    \A data \in BatchUpdateBodies, t \in Times, m \in Mails :
        BatchUpdateFrame(data, batch_update_facilities(data, t, m[1], m[2]))

\* The same on a session that holds nothing but the committed table.
C17_FrameOnCleanSession ==
    SessionClean =>
        \A data \in BatchUpdateBodies, t \in Times, m \in Mails :
            BatchUpdateFrame(data, batch_update_facilities(data, t, m[1], m[2]))


\* The frame of a delete: 200 and exactly the facility gone, or 404 and nothing
\* changed.
DeleteFrame(id, out) ==
    IF id \in Ids(store)
    THEN out.resp.status = 200 => out.s.store = store \ {RowOf(store, id)}
    ELSE out.resp.status = 404 /\ out.s.store = store

\* C18: delete_facility removes exactly the stored facility with the requested id
\* and leaves every other one as it is (200); without such a facility it answers
\* 404 and the store is unchanged.
C18_DeleteFrame ==
    \A id \in RequestIds, t \in Times :
        DeleteFrame(id, delete_facility(<< id >>, t, TRUE, TRUE))

\* The same on a session that holds nothing but the committed table.
C18_FrameOnCleanSession ==
    SessionClean =>
        \A id \in RequestIds, t \in Times :
            DeleteFrame(id, delete_facility(<< id >>, t, TRUE, TRUE))


\* C19: a batch answered 400 for an element without name, category or
\* coordinates stores none of its facilities, neither at once nor through any
\* later request on the shared session: no stored facility is one of a rejected
\* batch.
C19_BatchAllOrNothing ==
    /\ \A r \in store : r.name # NameRejected
    /\ resp.op = "add_multiple_facilities_batch" /\ resp.status = 400
         => \A r \in work : r.name # NameRejected

\* The stored rows after a request, whatever it answered.
StoreKeptOnError(out) ==
    out.resp.status \in {400, 404, 500} => out.s.store = store

\* C20: add_facility, update_facility, delete_facility, clear_facilities,
\* add_multiple_facilities_batch and batch_update_facilities leave the stored
\* facilities as they were whenever they answer 400, 404 or 500, also when the
\* error is the e-mail notification failing after the commit.
C20_ErrorLeavesStore ==
    \A t \in Times, m \in Mails :
        /\ \A data \in AddBodies :
              Room(1) => StoreKeptOnError(add_facility(data, t, m[1], m[2]))
        /\ \A data \in UpdateBodies :
              StoreKeptOnError(update_facility(data, t, m[1], m[2]))
        /\ \A id \in IdParams :
              StoreKeptOnError(delete_facility(id, t, m[1], m[2]))
        /\ StoreKeptOnError(clear_facilities(t, m[1], m[2]))
        /\ \A body \in BatchBodies :
              Room(BodySize(body))
                => StoreKeptOnError(add_multiple_facilities_batch(body, t, m[1], m[2]))
        /\ \A data \in BatchUpdateBodies :
              StoreKeptOnError(batch_update_facilities(data, t, m[1], m[2]))


\* C21: a request that failed in the database at flush or commit leaves the
\* shared session rolled back: whatever requests failed before, a valid
\* add_facility answers 201 and stores its one facility and nothing else.
C21_FailureDoesNotSpread ==
    /\ ~broken
    /\ \A data \in ValidAdds, t \in Times :
          Room(1) =>
              LET out == add_facility(data, t, TRUE, TRUE)
              IN  /\ out.resp.status = 201
                  /\ Cardinality(out.s.store) = Cardinality(store) + 1
                  /\ store \subseteq out.s.store


\* C22: the catch-all branch of every handler answers 500. While the session
\* awaits a rollback the query of every handler raises, so each of them answers
\* from its catch-all branch; and no response carries a status other than 200,
\* 201, 400, 404 and 500.
C22_CatchAllAnswers500 ==
    /\ resp.op # "none" => resp.status \in {200, 201, 400, 404, 500}
    /\ broken =>
          \A t \in Times :
              /\ get_all_facilities(t, TRUE, TRUE).resp.status = 500
              /\ clear_facilities(t, TRUE, TRUE).resp.status = 500
              /\ \A id \in RequestIds :
                    /\ get_facility_by_id(<< id >>, t, TRUE, TRUE).resp.status = 500
                    /\ delete_facility(<< id >>, t, TRUE, TRUE).resp.status = 500
              /\ \A data \in ValidAdds :
                    add_facility(data, t, TRUE, TRUE).resp.status = 500


\* C23: a stored facility has the id it was created with, whatever update
\* requests were served.
C23_IdNeverChanges == \A r \in store : r.id = r.id0


\* C24: a 200 answer of clear_facilities reports what the request removed:
\* cleared_facilities are the facilities its DELETE removed and total_count is
\* their number, also with requests served between its read and its DELETE.
C24_ClearReportsRemoved ==
    calc.clear.pc = "done" /\ resp.op = "clear_facilities" /\ resp.status = 200
        => /\ resp.detail.deleted = Ids(calc.clear.removed)
           /\ resp.detail.total_count = Cardinality(calc.clear.removed)

RECURSIVE SumCounts(_)
\* The sum of the counts of category_stats.
SumCounts(stats) ==
    IF stats = {} THEN 0
    ELSE LET e == CHOOSE x \in stats : TRUE
         IN  e.count + SumCounts(stats \ {e})

\* The stats request answers 200 in this step.
StatsAnswered ==
    /\ calc.stats.pc = "line518"
    /\ resp'.op = "get_facility_stats"
    /\ resp'.status = 200

\* The answer d, given with rows stored: the total is the sum of the category
\* counts, and the latest facility is null for total 0 and the stored facility
\* of greatest id otherwise.
StatsConsistent(d, rows) ==
    /\ d.total_facilities = SumCounts(d.category_stats)
    /\ d.latest_facility = NoId <=> d.total_facilities = 0
    /\ d.latest_facility # NoId =>
          /\ d.latest_facility[1] \in Ids(rows)
          /\ \A i \in Ids(rows) : i <= d.latest_facility[1]

\* C25: every 200 answer of get_facility_stats is consistent in itself and with
\* the store at the time of the answer, also with add and delete requests served
\* between its three queries.
C25_StatsConsistent ==
    [][StatsAnswered => StatsConsistent(resp'.detail, store')]_vars

=============================================================================
